---- MODULE Spec2Model ----
(***************************************************************************)
(* Model of plafond (src/plafond/src/main.rs): the per-process extraction  *)
(* of /proc/<pid>/{comm,cmdline,fd,limits,status} into a ProcStats record, *)
(* and the command-line driver around it.                                  *)
(*                                                                         *)
(* Text is modelled as sequences of one-character strings, so that         *)
(* split_whitespace, join, starts_with and the decimal parsers are         *)
(* computed character by character (a character without a string escape   *)
(* is written by its code point, "U+00A0").  u64 and u32 values are little-endian  *)
(* sequences of 16-bit limbs (4 limbs and 2 limbs), so that u64::MAX and   *)
(* the overflow of n * 1024 keep their true width.                         *)
(***************************************************************************)
EXTENDS Integers, Sequences, FiniteSets

VARIABLES
    proc,             \* the /proc/<pid> entry under inspection
    overflow_checks,  \* build profile: TRUE = arithmetic overflow panics
    argv,             \* the parsed command line (struct Cli)
    sys,              \* the system around the program: user database
    op,               \* the operation that has been applied ("none" before)
    result            \* what that operation returned

vars == <<proc, overflow_checks, argv, sys, op, result>>

(***************************************************************************)
(* Bounds of the model.                                                    *)
(***************************************************************************)
MaxLines == 3     \* lines per limits/status descriptor, header included
MaxFds == 2       \* entries in the descriptor directory
MaxPid == 2       \* pids 1..MaxPid on the command line

(***************************************************************************)
(* Fixed-width unsigned integers as little-endian 16-bit limbs.            *)
(***************************************************************************)
Base == 65536
U64Limbs == 4
U32Limbs == 2

Zero(n) == [i \in 1..n |-> 0]
MaxVal(n) == [i \in 1..n |-> Base - 1]

\* A natural below 2^31 as an n-limb value (n >= 2).
FromNat(v, n) ==
    [i \in 1..n |-> IF i = 1 THEN v % Base ELSE IF i = 2 THEN v \div Base ELSE 0]

U64(v) == FromNat(v, U64Limbs)
U64_MAX == MaxVal(U64Limbs)

\* x * m + c over the limbs of x from limb i on: the low Len(x) limbs and
\* the carry out of the top limb.
RECURSIVE MulAddFrom(_, _, _, _)
MulAddFrom(x, m, c, i) ==
    IF i > Len(x)
    THEN [val |-> <<>>, carry |-> c]
    ELSE LET t == x[i] * m + c
             r == MulAddFrom(x, m, t \div Base, i + 1)
         IN  [val |-> <<t % Base>> \o r.val, carry |-> r.carry]

MulAdd(x, m, c) == MulAddFrom(x, m, c, 1)

(***************************************************************************)
(* Text helpers: str::split_whitespace, [&str]::join, str::starts_with,    *)
(* str::trim and str::parse::<uN>.                                         *)
(***************************************************************************)
\* char::is_whitespace: the Unicode White_Space characters.  The ones
\* that have no escape in a string are written by their code point, as
\* one character each.
White ==
    {"\t", "\n", "U+000B", "\f", "\r", " ", "U+0085", "U+00A0", "U+1680",
     "U+2000", "U+2001", "U+2002", "U+2003", "U+2004", "U+2005", "U+2006",
     "U+2007", "U+2008", "U+2009", "U+200A", "U+2028", "U+2029", "U+202F",
     "U+205F", "U+3000"}
Digits == {"0", "1", "2", "3", "4", "5", "6", "7", "8", "9"}

DigitVal(c) ==
    CASE c = "0" -> 0 [] c = "1" -> 1 [] c = "2" -> 2 [] c = "3" -> 3
      [] c = "4" -> 4 [] c = "5" -> 5 [] c = "6" -> 6 [] c = "7" -> 7
      [] c = "8" -> 8 [] c = "9" -> 9

RECURSIVE SplitFrom(_, _, _)
SplitFrom(l, i, cur) ==
    LET flush == IF cur = <<>> THEN <<>> ELSE <<cur>>
    IN  IF i > Len(l) THEN flush
        ELSE IF l[i] \in White THEN flush \o SplitFrom(l, i + 1, <<>>)
        ELSE SplitFrom(l, i + 1, Append(cur, l[i]))

split_whitespace(l) == SplitFrom(l, 1, <<>>)

RECURSIVE join(_, _)
join(parts, sep) ==
    IF parts = <<>> THEN <<>>
    ELSE IF Len(parts) = 1 THEN parts[1]
    ELSE parts[1] \o sep \o join(Tail(parts), sep)

starts_with(l, prefix) ==
    /\ Len(l) >= Len(prefix)
    /\ SubSeq(l, 1, Len(prefix)) = prefix

RECURSIVE TrimStart(_)
TrimStart(s) ==
    IF s # <<>> /\ s[1] \in White THEN TrimStart(Tail(s)) ELSE s

RECURSIVE TrimEnd(_)
TrimEnd(s) ==
    IF s # <<>> /\ s[Len(s)] \in White THEN TrimEnd(SubSeq(s, 1, Len(s) - 1)) ELSE s

trim(s) == TrimEnd(TrimStart(s))

\* The digit loop of from_str: acc * 10 + digit with checked arithmetic.
RECURSIVE ParseDigits(_, _, _)
ParseDigits(s, acc, i) ==
    IF i > Len(s) THEN [ok |-> TRUE, val |-> acc]
    ELSE IF s[i] \notin Digits THEN [ok |-> FALSE, val |-> acc]
    ELSE LET r == MulAdd(acc, 10, DigitVal(s[i]))
         IN  IF r.carry # 0 THEN [ok |-> FALSE, val |-> acc]
             ELSE ParseDigits(s, r.val, i + 1)

\* str::parse::<uN>() for an unsigned type of n limbs: an optional leading
\* "+", then one or more decimal digits, in range.
parse_unsigned(s, n) ==
    LET body == IF s # <<>> /\ s[1] = "+" THEN Tail(s) ELSE s
    IN  IF body = <<>> THEN [ok |-> FALSE, val |-> Zero(n)]
        ELSE ParseDigits(body, Zero(n), 1)

(***************************************************************************)
(* Text constants of the program.                                          *)
(***************************************************************************)
s_unlimited ==
    <<"u","n","l","i","m","i","t","e","d">>
s_max_open_files ==
    <<"M","a","x"," ","o","p","e","n"," ","f","i","l","e","s">>
s_max_address_space ==
    <<"M","a","x"," ","a","d","d","r","e","s","s"," ","s","p","a","c","e">>
s_max_processes ==
    <<"M","a","x"," ","p","r","o","c","e","s","s","e","s">>
k_VmRSS ==
    <<"V","m","R","S","S",":">>
k_VmSize ==
    <<"V","m","S","i","z","e",":">>
k_VmLck ==
    <<"V","m","L","c","k",":">>
k_Threads ==
    <<"T","h","r","e","a","d","s",":">>

(***************************************************************************)
(* parse_limit and ProcStats::parse_limits.                                *)
(***************************************************************************)
\* parse_limit without the "unlimited" case.
parse_limit_no_sentinel(s) ==
    LET r == parse_unsigned(s, U64Limbs)
    IN  IF r.ok THEN r.val ELSE Zero(U64Limbs)

parse_limit(s) ==
    IF s = s_unlimited
    THEN U64_MAX
    ELSE LET r == parse_unsigned(s, U64Limbs)
         IN  IF r.ok THEN r.val ELSE Zero(U64Limbs)

\* HashMap::insert
Insert(m, k, v) == [n \in DOMAIN m \cup {k} |-> IF n = k THEN v ELSE m[n]]

EmptyMap == [n \in {} |-> <<Zero(U64Limbs), Zero(U64Limbs)>>]

ZeroPair == <<Zero(U64Limbs), Zero(U64Limbs)>>

\* parse_limits_line with the columns taken one place to the right: soft
\* from the second-from-last column, hard from the last.
parse_limits_line_shifted(acc, line) ==
    IF ~line.ok THEN acc
    ELSE LET parts == split_whitespace(line.text)
             n == Len(parts)
         IN  IF n >= 4
             THEN LET name == join(SubSeq(parts, 1, n - 3), <<" ">>)
                      soft == parse_limit(parts[n - 1])
                      hard == parse_limit(parts[n])
                  IN  [rlimits |-> Insert(acc.rlimits, name, <<soft, hard>>),
                       fd_limits |->
                           IF name = s_max_open_files THEN <<soft, hard>>
                           ELSE acc.fd_limits,
                       mem_limits |->
                           IF name = s_max_address_space THEN <<soft, hard>>
                           ELSE acc.mem_limits,
                       thread_limits |->
                           IF name = s_max_processes THEN <<soft, hard>>
                           ELSE acc.thread_limits]
             ELSE acc

\* parse_limits_line with the singled-out pairs set only by the first line
\* of their name, while the mapping keeps the last.
parse_limits_line_first_wins(acc, line) ==
    IF ~line.ok THEN acc
    ELSE LET parts == split_whitespace(line.text)
             n == Len(parts)
         IN  IF n >= 4
             THEN LET name == join(SubSeq(parts, 1, n - 3), <<" ">>)
                      soft == parse_limit(parts[n - 2])
                      hard == parse_limit(parts[n - 1])
                  IN  [rlimits |-> Insert(acc.rlimits, name, <<soft, hard>>),
                       fd_limits |->
                           IF name = s_max_open_files /\ name \notin DOMAIN acc.rlimits
                           THEN <<soft, hard>> ELSE acc.fd_limits,
                       mem_limits |->
                           IF name = s_max_address_space /\ name \notin DOMAIN acc.rlimits
                           THEN <<soft, hard>> ELSE acc.mem_limits,
                       thread_limits |->
                           IF name = s_max_processes /\ name \notin DOMAIN acc.rlimits
                           THEN <<soft, hard>> ELSE acc.thread_limits]
             ELSE acc

\* One iteration of the loop over reader.lines().skip(1).
parse_limits_line(acc, line) ==
    IF ~line.ok THEN acc
    ELSE LET parts == split_whitespace(line.text)
             n == Len(parts)
         IN  IF n >= 4
             THEN LET name == join(SubSeq(parts, 1, n - 3), <<" ">>)
                      soft == parse_limit(parts[n - 2])
                      hard == parse_limit(parts[n - 1])
                  IN  [rlimits |-> Insert(acc.rlimits, name, <<soft, hard>>),
                       fd_limits |->
                           IF name = s_max_open_files THEN <<soft, hard>>
                           ELSE acc.fd_limits,
                       mem_limits |->
                           IF name = s_max_address_space THEN <<soft, hard>>
                           ELSE acc.mem_limits,
                       thread_limits |->
                           IF name = s_max_processes THEN <<soft, hard>>
                           ELSE acc.thread_limits]
             ELSE acc

RECURSIVE parse_limits_from(_, _, _)
parse_limits_from(acc, lines, i) ==
    IF i > Len(lines) THEN acc
    ELSE parse_limits_from(parse_limits_line(acc, lines[i]), lines, i + 1)

\* A function that does not return: its loop over reader.lines() gets Err
\* from every read and goes on for ever.
NoReturn == [kind |-> "NoReturn"]

\* File::open fails: Err.  Otherwise the loop takes the lines that can be
\* read; when a read fails, lines() gives Err from then on, the loop never
\* ends and the function does not return.
parse_limits(p) ==
    IF ~p.limits.readable
    THEN [kind |-> "Err"]
    ELSE IF p.limits.io_error THEN NoReturn
    ELSE LET acc == parse_limits_from(
                        [rlimits |-> EmptyMap, fd_limits |-> ZeroPair,
                         mem_limits |-> ZeroPair, thread_limits |-> ZeroPair],
                        p.limits.lines, 2)
         IN  [kind |-> "Ok", rlimits |-> acc.rlimits,
              fd_limits |-> acc.fd_limits, mem_limits |-> acc.mem_limits,
              thread_limits |-> acc.thread_limits]

(***************************************************************************)
(* extract_kb and ProcStats::parse_status.                                 *)
(***************************************************************************)
KbToBytes == 1024

\* n * 1024 on u64: exact when it fits; on overflow a build with overflow
\* checks panics and a build without them wraps modulo 2^64.
extract_kb(line, checks) ==
    LET parts == split_whitespace(line)
    IN  IF Len(parts) < 2 THEN [kind |-> "Ok", val |-> Zero(U64Limbs)]
        ELSE LET n == parse_unsigned(parts[2], U64Limbs)
             IN  IF ~n.ok THEN [kind |-> "Ok", val |-> Zero(U64Limbs)]
                 ELSE LET r == MulAdd(n.val, KbToBytes, 0)
                      IN  IF r.carry # 0 /\ checks THEN [kind |-> "Panic"]
                          ELSE [kind |-> "Ok", val |-> r.val]

\* The Threads: branch: second token, "0" when there is none, parsed as
\* u32, 0 when malformed.
parse_threads(line) ==
    LET parts == split_whitespace(line)
        tok == IF Len(parts) < 2 THEN <<"0">> ELSE parts[2]
        r == parse_unsigned(tok, U32Limbs)
    IN  IF r.ok THEN r.val ELSE Zero(U32Limbs)

\* One iteration of the loop over the status lines; a panic in extract_kb
\* ends the loop.
parse_status_line(acc, line, checks) ==
    IF acc.kind = "Panic" \/ ~line.ok THEN acc
    ELSE LET l == line.text
             kb == extract_kb(l, checks)
         IN  IF starts_with(l, k_VmRSS)
             THEN IF kb.kind = "Panic" THEN [kind |-> "Panic"]
                  ELSE [acc EXCEPT !.vm_rss = kb.val]
             ELSE IF starts_with(l, k_VmSize)
             THEN IF kb.kind = "Panic" THEN [kind |-> "Panic"]
                  ELSE [acc EXCEPT !.vm_size = kb.val]
             ELSE IF starts_with(l, k_VmLck)
             THEN IF kb.kind = "Panic" THEN [kind |-> "Panic"]
                  ELSE [acc EXCEPT !.vm_locked = kb.val]
             ELSE IF starts_with(l, k_Threads)
             THEN [acc EXCEPT !.threads = parse_threads(l)]
             ELSE acc

RECURSIVE parse_status_from(_, _, _, _)
parse_status_from(acc, lines, i, checks) ==
    IF i > Len(lines) THEN acc
    ELSE parse_status_from(parse_status_line(acc, lines[i], checks),
                           lines, i + 1, checks)

\* As parse_limits; a panic on a line that was read comes before the
\* failing read.
parse_status(p, checks) ==
    IF ~p.status.readable
    THEN [kind |-> "Err"]
    ELSE LET acc == parse_status_from(
                        [kind |-> "Ok", vm_rss |-> Zero(U64Limbs),
                         vm_size |-> Zero(U64Limbs), vm_locked |-> Zero(U64Limbs),
                         threads |-> Zero(U32Limbs)],
                        p.status.lines, 1, checks)
         IN  IF acc.kind = "Panic" THEN acc
             ELSE IF p.status.io_error THEN NoReturn
             ELSE acc

(***************************************************************************)
(* The identity readers, the descriptor count and ProcStats::gather.       *)
(***************************************************************************)
Some(x) == <<x>>
None == <<>>

read_name(p) ==
    IF p.comm.readable
    THEN [kind |-> "Ok", val |-> trim(p.comm.text)]
    ELSE [kind |-> "Err"]

\* The body is Ok(todo!()): evaluating it panics, whatever the file holds.
read_cmdline(p) == [kind |-> "Panic"]

count_open_fds(p) ==
    IF p.fd.readable
    THEN [kind |-> "Ok", val |-> U64(p.fd.entries)]
    ELSE [kind |-> "Err"]

\* The struct literal that gather returns.
ProcStats(pid, name, cmd, open_fds, lim, st) ==
    [kind |-> "Ok",
     pid |-> pid,
     name |-> name,
     cmd |-> cmd,
     open_fds |-> open_fds,
     fd_soft_limit |-> lim.fd_limits[1],
     fd_hard_limit |-> lim.fd_limits[2],
     mem_soft_limit |-> Some(lim.mem_limits[1]),
     mem_hard_limit |-> Some(lim.mem_limits[2]),
     threads |-> st.threads,
     threads_soft_limit |-> Some(lim.thread_limits[1]),
     threads_hard_limit |-> Some(lim.thread_limits[2]),
     vm_rss |-> st.vm_rss,
     vm_size |-> st.vm_size,
     vm_locked |-> st.vm_locked,
     rlimits |-> lim.rlimits]

Err(msg) == [kind |-> "Err", msg |-> msg]
Panic == [kind |-> "Panic"]

\* let open_fds = match count_open_fds(..) { Ok(n) => n, Err(_) => 0 }
open_fds_or_zero(p) ==
    LET c == count_open_fds(p)
    IN  IF c.kind = "Ok" THEN c.val ELSE Zero(U64Limbs)

gather(p, checks) ==
    LET name == read_name(p)
    IN  IF name.kind = "Err" THEN Err("Failed to read process name")
        ELSE
    LET cmd == read_cmdline(p)
    IN  IF cmd.kind = "Panic" THEN Panic
        ELSE IF cmd.kind = "Err" THEN Err("Failed to read cmdline")
        ELSE
    LET open_fds == open_fds_or_zero(p)
        lim == parse_limits(p)
    IN  IF lim.kind = "Err" THEN Err("Failed to parse limits")
        ELSE IF lim.kind = "NoReturn" THEN NoReturn
        ELSE
    LET st == parse_status(p, checks)
    IN  IF st.kind = "Panic" THEN Panic
        ELSE IF st.kind = "NoReturn" THEN NoReturn
        ELSE IF st.kind = "Err" THEN Err("Failed to parse status")
        ELSE ProcStats(p.pid, name.val, cmd.val, open_fds, lim, st)

(***************************************************************************)
(* The command-line driver: main, handle_cli_args and the three handlers.  *)
(* A handler's outcome is [kind, msg, stderr, calls]: how it ended ("Ok",  *)
(* "Err" with msg, or "Panic"), what it wrote to stderr, and the functions *)
(* it called, in order.                                                    *)
(***************************************************************************)
Outcome(kind, msg, stderr, calls) ==
    [kind |-> kind, msg |-> msg, stderr |-> stderr, calls |-> calls]

\* str::parse::<u32>, else the user database (nix User::from_name).
resolve_uid(user_str, s) ==
    LET n == parse_unsigned(user_str, U32Limbs)
    IN  IF n.ok THEN [kind |-> "Ok", val |-> n.val]
        ELSE IF s.nss_error THEN Err("Failed user lookup")
        ELSE IF user_str \notin DOMAIN s.users THEN Err("User not found")
        ELSE [kind |-> "Ok", val |-> s.users[user_str]]

\* The placeholders: each body is unimplemented!().
collect_pids_for_uid(uid, s) == Panic
inspect_single_pid(pid, s) == Panic
contruct_ptree_for_ppid(ppid, s) == Panic
inspect_pid_tree(root_pid, s) == Panic
inspect_pid_list(pids, s) == Panic
print_sys_stats(s) == Panic

handle_user_arg(user_str, s) ==
    LET uid == resolve_uid(user_str, s)
    IN  IF uid.kind = "Err"
        THEN Outcome("Err", uid.msg, <<>>, <<"resolve_uid">>)
        ELSE
    LET pids == collect_pids_for_uid(uid.val, s)
        c2 == <<"resolve_uid", "collect_pids_for_uid">>
    IN  IF pids.kind = "Panic" THEN Outcome("Panic", "", <<>>, c2)
        ELSE IF pids.kind = "Err" THEN Outcome("Err", pids.msg, <<>>, c2)
        ELSE
    LET r == inspect_pid_list(pids.val, s)
        c3 == Append(c2, "inspect_pid_list")
    IN  IF r.kind = "Panic" THEN Outcome("Panic", "", <<>>, c3)
        ELSE IF r.kind = "Err"
        THEN Outcome("Ok", "", <<"Failed to inspect PIDs for user">>, c3)
        ELSE Outcome("Ok", "", <<>>, c3)

handle_pid_arg(pid, s) ==
    LET r == inspect_single_pid(pid, s)
        c == <<"inspect_single_pid">>
    IN  IF r.kind = "Panic" THEN Outcome("Panic", "", <<>>, c)
        ELSE IF r.kind = "Err" THEN Outcome("Err", r.msg, <<>>, c)
        ELSE Outcome("Ok", "", <<>>, c)

\* An Err from contruct_ptree_for_ppid is printed and not returned:
\* inspect_pid_tree is called whatever the construction gave.
handle_ptree_arg(ppid, s) ==
    LET t == contruct_ptree_for_ppid(ppid, s)
        c1 == <<"contruct_ptree_for_ppid">>
    IN  IF t.kind = "Panic" THEN Outcome("Panic", "", <<>>, c1)
        ELSE
    LET e == IF t.kind = "Err" THEN <<"Failed to inspect PIDs for user">>
             ELSE <<>>
        r == inspect_pid_tree(ppid, s)
        c2 == Append(c1, "inspect_pid_tree")
    IN  IF r.kind = "Panic" THEN Outcome("Panic", "", e, c2)
        ELSE IF r.kind = "Err" THEN Outcome("Err", r.msg, e, c2)
        ELSE Outcome("Ok", "", e, c2)

\* The last arm prints the help and calls process::exit(1).
handle_cli_args(a, s) ==
    IF a.user # None /\ a.pid = None /\ a.ptree = None
    THEN handle_user_arg(a.user[1], s)
    ELSE IF a.user = None /\ a.pid # None /\ a.ptree = None
    THEN handle_pid_arg(a.pid[1], s)
    ELSE IF a.user = None /\ a.pid = None /\ a.ptree # None
    THEN handle_ptree_arg(a.ptree[1], s)
    ELSE Outcome("Exit", "", <<>>, <<"print_help">>)

PanicExitCode == 101

\* The exit status of the process and what it wrote to stderr.
main(a, s) ==
    LET r == handle_cli_args(a, s)
    IN  IF r.kind = "Exit"
        THEN [kind |-> "Exit", code |-> 1, stderr |-> r.stderr, calls |-> r.calls]
        ELSE IF r.kind = "Panic"
        THEN [kind |-> "Exit", code |-> PanicExitCode, stderr |-> r.stderr,
              calls |-> r.calls]
        ELSE IF r.kind = "Err"
        THEN [kind |-> "Exit", code |-> 1,
              stderr |-> Append(r.stderr, "Error: " \o r.msg), calls |-> r.calls]
        ELSE
    LET q == print_sys_stats(s)
        c == Append(r.calls, "print_sys_stats")
    IN  IF q.kind = "Panic"
        THEN [kind |-> "Exit", code |-> PanicExitCode, stderr |-> r.stderr,
              calls |-> c]
        ELSE IF q.kind = "Err"
        THEN [kind |-> "Exit", code |-> 1,
              stderr |-> Append(r.stderr, "Error: " \o q.msg), calls |-> c]
        ELSE [kind |-> "Exit", code |-> 0, stderr |-> r.stderr, calls |-> c]

(***************************************************************************)
(* Inputs: descriptor lines, descriptors, /proc entries, command lines.    *)
(***************************************************************************)
l_header ==
    <<"L","i","m","i","t"," "," ","S","o","f","t"," ","L","i","m","i","t"," "," ","H","a","r","d"," ","L","i","m","i","t"," "," ","U","n","i","t","s">>
l_open_files ==
    <<"M","a","x"," ","o","p","e","n"," ","f","i","l","e","s"," "," "," "," "," ","1","0","2","4"," "," "," "," "," "," "," "," "," "," "," "," "," "," "," "," "," ","4","0","9","6"," "," "," "," "," "," "," "," "," "," "," "," "," "," "," "," "," ","f","i","l","e","s">>
l_open_files_b ==
    <<"M","a","x"," ","o","p","e","n"," ","f","i","l","e","s"," ","4","0","9","6"," ","u","n","l","i","m","i","t","e","d"," ","f","i","l","e","s">>
l_address_space ==
    <<"M","a","x"," ","a","d","d","r","e","s","s"," ","s","p","a","c","e"," ","u","n","l","i","m","i","t","e","d"," ","u","n","l","i","m","i","t","e","d"," ","b","y","t","e","s">>
l_processes ==
    <<"M","a","x"," ","p","r","o","c","e","s","s","e","s"," ","6","3","4","3","2"," ","b","o","g","u","s"," ","p","r","o","c","e","s","s","e","s">>
l_nice ==
    <<"M","a","x"," ","n","i","c","e"," ","p","r","i","o","r","i","t","y"," ","0"," ","0">>
l_short ==
    <<"c","p","u"," ","1"," ","2">>
l_formfeed ==
    <<"M","a","x"," ","o","p","e","n","\f","f","i","l","e","s","U+00A0","7"," ","8","U+2003","f">>

st_rss ==
    <<"V","m","R","S","S",":","\t"," "," "," ","2","0","4","8"," ","k","B">>
st_rss_b ==
    <<"V","m","R","S","S",":","\t","5","1","2"," ","k","B">>
st_rss_glued ==
    <<"V","m","R","S","S",":","2","0","4","8"," ","k","B">>
st_size_max ==
    <<"V","m","S","i","z","e",":","\t","1","8","0","1","4","3","9","8","5","0","9","4","8","1","9","8","3"," ","k","B">>
st_size_over ==
    <<"V","m","S","i","z","e",":","\t","1","8","0","1","4","3","9","8","5","0","9","4","8","1","9","8","4"," ","k","B">>
st_lck ==
    <<"V","m","L","c","k",":","\t"," "," "," "," "," "," "," ","0"," ","k","B">>
st_threads ==
    <<"T","h","r","e","a","d","s",":","\t","4">>
st_name ==
    <<"N","a","m","e",":","\t","b","a","s","h">>
st_lck_nbsp ==
    <<"V","m","L","c","k",":","U+00A0","6","4","\f","k","B">>

t_1024 ==
    <<"1","0","2","4">>
t_4096 ==
    <<"4","0","9","6">>
t_0 ==
    <<"0">>
t_007 ==
    <<"0","0","7">>
t_plus7 ==
    <<"+","7">>
t_minus1 ==
    <<"-","1">>
t_plus ==
    <<"+">>
t_12a ==
    <<"1","2","a">>
t_Unlimited ==
    <<"U","n","l","i","m","i","t","e","d">>
t_u64max ==
    <<"1","8","4","4","6","7","4","4","0","7","3","7","0","9","5","5","1","6","1","5">>
t_u64over ==
    <<"1","8","4","4","6","7","4","4","0","7","3","7","0","9","5","5","1","6","1","6">>
t_empty == <<>>

c_bash ==
    <<"b","a","s","h","\n">>
c_bash_ff ==
    <<"\f","b","a","s","h","U+000B","\f","\n">>
c_cmdline ==
    <<"b","a","s","h"," ","-","l">>
u_root ==
    <<"r","o","o","t">>
u_1000 ==
    <<"1","0","0","0">>
u_ghost ==
    <<"g","h","o","s","t">>
u_u32over ==
    <<"4","2","9","4","9","6","7","2","9","6">>

\* A line as BufRead::lines yields it: Ok(text), or Err for bytes that are
\* not UTF-8.
Line(text) == [ok |-> TRUE, text |-> text]
BadLine == [ok |-> FALSE, text |-> <<>>]

LimitLines ==
    {Line(l_header), Line(l_open_files), Line(l_open_files_b),
     Line(l_address_space), Line(l_processes), Line(l_nice), Line(l_short),
     Line(l_formfeed), BadLine}

StatusLines ==
    {Line(st_rss), Line(st_rss_b), Line(st_rss_glued), Line(st_size_max),
     Line(st_size_over), Line(st_lck), Line(st_lck_nbsp), Line(st_threads),
     Line(st_name), BadLine}

Tokens ==
    {s_unlimited, t_1024, t_4096, t_0, t_007, t_plus7, t_minus1, t_plus,
     t_12a, t_Unlimited, t_u64max, t_u64over, t_empty}

Files(L) == UNION {[1..n -> L] : n \in 0..MaxLines}

\* A descriptor: whether File::open succeeds, the lines that can be read,
\* and whether the read after them fails (the descriptor is a directory,
\* or the process has exited since the open) instead of reaching the end.
Readable(lines) == [readable |-> TRUE, lines |-> lines, io_error |-> FALSE]
Failing(lines) == [readable |-> TRUE, lines |-> lines, io_error |-> TRUE]
Unreadable == [readable |-> FALSE, lines |-> <<>>, io_error |-> FALSE]

\* The lines read before a failing read: the failing read is one more.
FilesCutShort(L) == UNION {[1..n -> L] : n \in 0..(MaxLines - 1)}

DefaultProc ==
    [pid |-> 1,
     comm |-> [readable |-> TRUE, text |-> c_bash],
     cmdline |-> [readable |-> TRUE, text |-> c_cmdline],
     fd |-> [readable |-> TRUE, entries |-> 0],
     limits |-> Readable(<<Line(l_header), Line(l_open_files)>>),
     status |-> Readable(<<Line(st_rss), Line(st_threads)>>)]

SampleLimits ==
    {Unreadable,
     Failing(<<Line(l_header)>>),
     Readable(<<Line(l_header)>>),
     Readable(<<Line(l_header), Line(l_open_files), Line(l_address_space)>>)}

SampleStatus ==
    {Unreadable,
     Failing(<<Line(st_rss)>>),
     Readable(<<Line(st_rss), Line(st_threads)>>),
     Readable(<<Line(st_size_over)>>)}

ProcEntries ==
    [pid : 1..MaxPid,
     comm : {[readable |-> FALSE, text |-> <<>>],
             [readable |-> TRUE, text |-> c_bash],
             [readable |-> TRUE, text |-> c_bash_ff]},
     cmdline : {[readable |-> FALSE, text |-> <<>>],
                [readable |-> TRUE, text |-> c_cmdline]},
     fd : {[readable |-> FALSE, entries |-> 0]}
          \cup {[readable |-> TRUE, entries |-> n] : n \in 0..MaxFds},
     limits : SampleLimits,
     status : SampleStatus]

\* struct Cli after clap: exactly one of the three targets is given.
Argvs ==
    {[user |-> Some(u), pid |-> None, ptree |-> None] :
        u \in {u_root, u_1000, u_ghost, u_u32over, t_empty}}
    \cup {[user |-> None, pid |-> Some(n), ptree |-> None] : n \in 1..MaxPid}
    \cup {[user |-> None, pid |-> None, ptree |-> Some(n)] : n \in 1..MaxPid}

DefaultArgv == [user |-> None, pid |-> Some(1), ptree |-> None]

\* The user database, whether its lookup fails, and the live pids.
Systems ==
    [users : {[n \in {} |-> Zero(U32Limbs)], [n \in {u_root} |-> Zero(U32Limbs)]},
     nss_error : BOOLEAN,
     live : SUBSET (1..MaxPid)]

DefaultSys ==
    [users |-> [n \in {u_root} |-> Zero(U32Limbs)], nss_error |-> FALSE,
     live |-> 1..MaxPid]

\* Pid lists without repetition.
PidLists ==
    {l \in UNION {[1..n -> 1..MaxPid] : n \in 0..MaxPid} :
        \A i, j \in 1..Len(l) : i # j => l[i] # l[j]}

(***************************************************************************)
(* Initial states: one family of inputs per part of the program.           *)
(***************************************************************************)
InitLimits ==
    /\ proc \in {[DefaultProc EXCEPT !.limits = Readable(f)] : f \in Files(LimitLines)}
               \cup {[DefaultProc EXCEPT !.limits = Failing(f)] :
                        f \in FilesCutShort(LimitLines)}
    /\ overflow_checks = TRUE
    /\ argv = DefaultArgv
    /\ sys = DefaultSys
    /\ op = "none"
    /\ result = [arg |-> <<>>, out |-> <<>>]

InitStatus ==
    /\ proc \in {[DefaultProc EXCEPT !.status = Readable(f)] : f \in Files(StatusLines)}
               \cup {[DefaultProc EXCEPT !.status = Failing(f)] :
                        f \in FilesCutShort(StatusLines)}
    /\ overflow_checks \in BOOLEAN
    /\ argv = DefaultArgv
    /\ sys = DefaultSys
    /\ op = "none"
    /\ result = [arg |-> <<>>, out |-> <<>>]

InitGather ==
    /\ proc \in ProcEntries
    /\ overflow_checks \in BOOLEAN
    /\ argv = DefaultArgv
    /\ sys = DefaultSys
    /\ op = "none"
    /\ result = [arg |-> <<>>, out |-> <<>>]

InitMain ==
    /\ proc = DefaultProc
    /\ overflow_checks = TRUE
    /\ argv \in Argvs
    /\ sys \in Systems
    /\ op = "none"
    /\ result = [arg |-> <<>>, out |-> <<>>]

(***************************************************************************)
(* Actions: one call of one function on the current inputs.                *)
(***************************************************************************)
Apply(name, arg, out) ==
    /\ op' = name
    /\ result' = [arg |-> arg, out |-> out]
    /\ UNCHANGED <<proc, overflow_checks, argv, sys>>

ParseLimit ==
    /\ op = "none"
    /\ \E tok \in Tokens : Apply("parse_limit", tok, parse_limit(tok))

ParseLimits ==
    /\ op = "none"
    /\ Apply("parse_limits", <<>>, parse_limits(proc))

ParseStatus ==
    /\ op = "none"
    /\ Apply("parse_status", <<>>, parse_status(proc, overflow_checks))

ExtractKb ==
    /\ op = "none"
    /\ \E i \in 1..Len(proc.status.lines) :
           /\ proc.status.lines[i].ok
           /\ Apply("extract_kb", proc.status.lines[i].text,
                    extract_kb(proc.status.lines[i].text, overflow_checks))

ReadName ==
    /\ op = "none"
    /\ Apply("read_name", <<>>, read_name(proc))

CountOpenFds ==
    /\ op = "none"
    /\ Apply("count_open_fds", <<>>, count_open_fds(proc))

Gather ==
    /\ op = "none"
    /\ Apply("gather", <<>>, gather(proc, overflow_checks))

ResolveUid ==
    /\ op = "none"
    /\ argv.user # None
    /\ Apply("resolve_uid", argv.user[1], resolve_uid(argv.user[1], sys))

HandleUserArg ==
    /\ op = "none"
    /\ argv.user # None
    /\ Apply("handle_user_arg", argv.user[1], handle_user_arg(argv.user[1], sys))

HandlePidArg ==
    /\ op = "none"
    /\ argv.pid # None
    /\ Apply("handle_pid_arg", argv.pid[1], handle_pid_arg(argv.pid[1], sys))

HandlePtreeArg ==
    /\ op = "none"
    /\ argv.ptree # None
    /\ Apply("handle_ptree_arg", argv.ptree[1], handle_ptree_arg(argv.ptree[1], sys))

InspectPidList ==
    /\ op = "none"
    /\ \E pids \in PidLists : Apply("inspect_pid_list", pids, inspect_pid_list(pids, sys))

Main ==
    /\ op = "none"
    /\ Apply("main", <<>>, main(argv, sys))

NextLimits == ParseLimit \/ ParseLimits
NextStatus == ParseStatus \/ ExtractKb
NextGather == Gather \/ ReadName \/ CountOpenFds
NextMain ==
    \/ Main
    \/ ResolveUid
    \/ HandleUserArg
    \/ HandlePidArg
    \/ HandlePtreeArg
    \/ InspectPidList

SpecLimits == InitLimits /\ [][NextLimits]_vars
SpecStatus == InitStatus /\ [][NextStatus]_vars
SpecGather == InitGather /\ [][NextGather]_vars
SpecMain == InitMain /\ [][NextMain]_vars

Init == InitLimits \/ InitStatus \/ InitGather \/ InitMain
Next == NextLimits \/ NextStatus \/ NextGather \/ NextMain
Spec == Init /\ [][Next]_vars

(***************************************************************************)
(* Properties of ProcStats::gather (SpecGather).                           *)
(***************************************************************************)
GatherDone == op = "gather"

\* The messages of the sub-extractions of gather that cannot succeed on p.
FailingExtractions(p) ==
    {m \in {"Failed to read process name", "Failed to read cmdline",
            "Failed to parse limits", "Failed to parse status"} :
        \/ m = "Failed to read process name" /\ ~p.comm.readable
        \/ m = "Failed to read cmdline" /\ ~p.cmdline.readable
        \/ m = "Failed to parse limits"
               /\ (~p.limits.readable \/ p.limits.io_error)
        \/ m = "Failed to parse status"
               /\ (~p.status.readable \/ p.status.io_error)}

\* C1: when the name, the command line, the limits descriptor or the
\* status descriptor of the pid cannot be read, gather returns an error
\* that names a sub-extraction that failed; it returns no record and does
\* not panic.
C1_UnreadableGivesNamedError ==
    (GatherDone /\ FailingExtractions(proc) # {}) =>
        /\ result.out.kind = "Err"
        /\ result.out.msg \in FailingExtractions(proc)

\* C3: when the descriptor directory cannot be read, gather ends as it
\* would with a readable directory, in a record or in an error of a fatal
\* sub-extraction: an error exactly when one of them fails, and otherwise
\* a record whose open_fds is 0.
C3_UnreadableFdDirCountsZero ==
    (GatherDone /\ ~proc.fd.readable) =>
        /\ result.out.kind \in {"Ok", "Err"}
        /\ result.out.kind = "Err" <=> FailingExtractions(proc) # {}
        /\ result.out.kind = "Ok" => result.out.open_fds = Zero(U64Limbs)

\* C4: for a pid whose name, command line, limits, status and descriptor
\* directory are all readable, gather returns a record whose open_fds is
\* the number of entries of the descriptor directory.
C4_ReadablePidGivesRecord ==
    (GatherDone /\ FailingExtractions(proc) = {} /\ proc.fd.readable) =>
        /\ result.out.kind = "Ok"
        /\ result.out.open_fds = U64(proc.fd.entries)

(***************************************************************************)
(* Properties of the limits path (SpecLimits).                             *)
(***************************************************************************)
\* The limit fields of the record that the struct literal of gather
\* builds from a result of parse_limits.
LimitFields(lim) ==
    ProcStats(proc.pid, <<>>, <<>>, Zero(U64Limbs), lim,
              [vm_rss |-> Zero(U64Limbs), vm_size |-> Zero(U64Limbs),
               vm_locked |-> Zero(U64Limbs), threads |-> Zero(U32Limbs)])

\* C5: when the limits descriptor has no "Max address space" line the
\* memory limits are absent, and when it has no "Max processes" line the
\* thread limits are absent: the record fields built from what
\* parse_limits returns are None, and parse_limits hands gather no
\* defaulted (0, 0) for them.
C5_MissingLimitIsNone ==
    (op = "parse_limits" /\ result.out.kind = "Ok") =>
        /\ s_max_address_space \notin DOMAIN result.out.rlimits =>
               /\ LimitFields(result.out).mem_soft_limit = None
               /\ LimitFields(result.out).mem_hard_limit = None
               /\ result.out.mem_limits # ZeroPair
        /\ s_max_processes \notin DOMAIN result.out.rlimits =>
               /\ LimitFields(result.out).threads_soft_limit = None
               /\ LimitFields(result.out).threads_hard_limit = None
               /\ result.out.thread_limits # ZeroPair

\* The columns of a limits line as the claim C6 names them.
Columns(line) == split_whitespace(line.text)
LimitName(line) ==
    join(SubSeq(Columns(line), 1, Len(Columns(line)) - 3), <<" ">>)
SoftColumn(line) == Columns(line)[Len(Columns(line)) - 2]
HardColumn(line) == Columns(line)[Len(Columns(line)) - 1]

\* The non-header lines of the limits descriptor that carry a name and
\* three more columns.
LimitRows(lines) ==
    {i \in 2..Len(lines) : lines[i].ok /\ Len(Columns(lines[i])) >= 4}

\* No later row has the same name as row i.
LastOfItsName(lines, i) ==
    \A j \in LimitRows(lines) : j > i => LimitName(lines[j]) # LimitName(lines[i])

\* C6 as stated: every non-header line, whatever the other lines are, is
\* stored in the mapping under the tokens before its last three columns,
\* with the third-from-last column as soft and the second-from-last as
\* hard limit.
C6_EveryLineStored ==
    (op = "parse_limits" /\ result.out.kind = "Ok") =>
        \A i \in 2..Len(proc.limits.lines) :
            LET line == proc.limits.lines[i]
            IN  (line.ok /\ Len(Columns(line)) >= 3) =>
                    /\ LimitName(line) \in DOMAIN result.out.rlimits
                    /\ result.out.rlimits[LimitName(line)] =
                           <<parse_limit(SoftColumn(line)),
                             parse_limit(HardColumn(line))>>

\* C6 amended: every non-header line of at least four columns is stored
\* under the tokens before its last three columns, joined by single
\* spaces, with the third-from-last column as soft and the second-from-last
\* as hard limit, in the mapping that parse_limits returns, unless a later
\* such line has the same name; the header, shorter lines and undecodable
\* lines store nothing.  The line
\* "Max open files 1024 4096 files" gives (1024, 4096) under
\* "Max open files".
C6_RowsStoredLastWins ==
    (op = "parse_limits" /\ result.out.kind = "Ok") =>
        LET lines == proc.limits.lines
            m == result.out.rlimits
        IN  /\ DOMAIN m = {LimitName(lines[i]) : i \in LimitRows(lines)}
            /\ \A i \in LimitRows(lines) :
                   LastOfItsName(lines, i) =>
                       m[LimitName(lines[i])] =
                           <<parse_limit(SoftColumn(lines[i])),
                             parse_limit(HardColumn(lines[i]))>>
            /\ \A i \in LimitRows(lines) :
                   (lines[i].text = l_open_files /\ LastOfItsName(lines, i)) =>
                       /\ s_max_open_files \in DOMAIN m
                       /\ m[s_max_open_files] = <<U64(1024), U64(4096)>>

C6_Witness ==
    /\ op = "parse_limits"
    /\ Len(proc.limits.lines) = 3
    /\ proc.limits.lines[2] = Line(l_open_files)
    /\ proc.limits.lines[3] = Line(l_nice)
    /\ DOMAIN result.out.rlimits =
           {s_max_open_files, <<"M","a","x"," ","n","i","c","e">>}
    /\ result.out.rlimits[s_max_open_files] = <<U64(1024), U64(4096)>>

\* The decimal value of the tokens of the model that denote a 64-bit
\* unsigned integer, and the tokens that do not.
ValidTokenValue ==
    {<<t_0, U64(0)>>, <<t_007, U64(7)>>, <<t_plus7, U64(7)>>,
     <<t_1024, U64(1024)>>, <<t_4096, U64(4096)>>, <<t_u64max, U64_MAX>>}
MalformedTokens ==
    {t_minus1, t_plus, t_12a, t_Unlimited, t_u64over, t_empty}

\* C7: parse_limit gives u64::MAX, which is not 0, for "unlimited", the
\* value of the token for a token that is a 64-bit unsigned integer, and 0
\* for any other token; it always returns a value.
C7_ParseLimitValues ==
    op = "parse_limit" =>
        /\ result.arg = s_unlimited =>
               /\ result.out = U64_MAX
               /\ result.out # Zero(U64Limbs)
        /\ \A tv \in ValidTokenValue : result.arg = tv[1] => result.out = tv[2]
        /\ result.arg \in MalformedTokens => result.out = Zero(U64Limbs)
        /\ \/ result.arg = s_unlimited
           \/ result.arg \in MalformedTokens
           \/ \E tv \in ValidTokenValue : result.arg = tv[1]

C7_Witness ==
    /\ op = "parse_limit"
    /\ result.arg = s_unlimited
    /\ result.out = <<65535, 65535, 65535, 65535>>

\* C10: after parse_limits, each singled-out pair is the entry of rlimits
\* under its exact key when the key is present, and (0, 0) when it is not.
AgreesWithMap(pair, m, key) ==
    IF key \in DOMAIN m THEN pair = m[key] ELSE pair = ZeroPair

C10_SingledOutPairsAgree ==
    (op = "parse_limits" /\ result.out.kind = "Ok") =>
        /\ AgreesWithMap(result.out.fd_limits, result.out.rlimits, s_max_open_files)
        /\ AgreesWithMap(result.out.mem_limits, result.out.rlimits, s_max_address_space)
        /\ AgreesWithMap(result.out.thread_limits, result.out.rlimits, s_max_processes)

C10_Witness ==
    /\ op = "parse_limits"
    /\ proc.limits.lines = <<Line(l_header), Line(l_open_files), Line(l_open_files_b)>>
    /\ result.out.fd_limits = <<U64(4096), U64_MAX>>
    /\ result.out.rlimits[s_max_open_files] = <<U64(4096), U64_MAX>>
    /\ result.out.mem_limits = ZeroPair
    /\ s_max_address_space \notin DOMAIN result.out.rlimits

(***************************************************************************)
(* Properties of the status path (SpecStatus).                             *)
(***************************************************************************)
\* The status lines that set the field of key: decodable lines that start
\* with it.  VmRSS:, VmSize: and VmLck: are not prefixes of one another,
\* so such a line takes the branch of its key.
KeyLines(lines, key) ==
    {i \in 1..Len(lines) : lines[i].ok /\ starts_with(lines[i].text, key)}

\* The value token of a status line, when it is one the parser accepts.
Accepted(line) ==
    /\ Len(split_whitespace(line.text)) >= 2
    /\ parse_unsigned(split_whitespace(line.text)[2], U64Limbs).ok
Kib(line) == parse_unsigned(split_whitespace(line.text)[2], U64Limbs).val

\* field = n * 1024 with no wraparound: the product leaves no carry out of
\* 64 bits.
ExactBytes(field, n) ==
    /\ MulAdd(n, KbToBytes, 0).carry = 0
    /\ field = MulAdd(n, KbToBytes, 0).val

FieldIsExact(field, lines, key) ==
    /\ KeyLines(lines, key) = {} => field = Zero(U64Limbs)
    /\ \A i \in KeyLines(lines, key) :
           ((\A j \in KeyLines(lines, key) : j <= i) /\ Accepted(lines[i])) =>
               ExactBytes(field, Kib(lines[i]))

\* C8: on a status descriptor that is read to its end, parse_status does
\* not abort, each of vm_rss, vm_size and vm_locked is exactly n * 1024 for
\* the accepted value n of the line of its key, and a field whose key is
\* not found is 0.
C8_KibToBytesExact ==
    (op = "parse_status" /\ proc.status.readable /\ ~proc.status.io_error) =>
        /\ result.out.kind = "Ok"
        /\ FieldIsExact(result.out.vm_rss, proc.status.lines, k_VmRSS)
        /\ FieldIsExact(result.out.vm_size, proc.status.lines, k_VmSize)
        /\ FieldIsExact(result.out.vm_locked, proc.status.lines, k_VmLck)

(***************************************************************************)
(* Properties of the driver (SpecMain).                                    *)
(***************************************************************************)
\* C2: inspecting a list of pids of which one has exited returns one entry
\* per requested pid, the entry of an exited pid marked as a failure and
\* the others populated; the batch is not aborted.
C2_BatchOneEntryPerPid ==
    (op = "inspect_pid_list" /\ \E i \in 1..Len(result.arg) : result.arg[i] \notin sys.live) =>
        /\ result.out.kind = "Ok"
        /\ Len(result.out.entries) = Len(result.arg)
        /\ \A i \in 1..Len(result.arg) :
               result.out.entries[i].failed <=> result.arg[i] \notin sys.live

\* C9: in tree mode with a root pid that is not found, handle_ptree_arg
\* returns the error of the tree construction without calling
\* inspect_pid_tree, and the program ends with a non-zero exit status.
C9_TreeFailureIsFatal ==
    /\ (op = "handle_ptree_arg" /\ result.arg \notin sys.live) =>
           /\ result.out.kind = "Err"
           /\ result.out.calls = <<"contruct_ptree_for_ppid">>
    /\ (op = "main" /\ argv.ptree # None /\ argv.ptree[1] \notin sys.live) =>
           /\ result.out.code # 0
           /\ result.out.calls = <<"contruct_ptree_for_ppid">>

====
